---- MODULE Spec2Model ----
(***************************************************************************)
(* Laurent power series with rational coefficients (power_series.py) and   *)
(* the series factories of basic_series.py.                                *)
(*                                                                         *)
(* A PowerSeries object is a heap cell [formula, order, length].  The      *)
(* formula is the closure handed to __init__; a closure built by an        *)
(* arithmetic method refers to its operands by their heap index, as the    *)
(* Python lambdas refer to self and other.  Coefficients are Fractions:    *)
(* records [num, den] in lowest terms with den > 0, or a raised exception. *)
(***************************************************************************)
EXTENDS Integers, Sequences, FiniteSets, TLC

VARIABLES heap, held, result

vars == <<heap, held, result>>

(***************************** bounds **************************************)
\* Largest number of series the client holds, per machine below.
MaxHeld == 2
MaxArithHeld == 2
MaxAddHeld == 3
MaxCtorHeld == 2
\* Coefficients are compared at the indices -BelowZero .. MaxIndex, and the
\* inversion round trip at the indices -BelowZero .. MaxTested.
BelowZero == 3
MaxIndex == 13
MaxTested == 5

(***************************** constants ***********************************)
\* get_order samples the indices 0 .. K-1.
K == 11
\* self.length set by __init__.
DefaultLength == 5

(************************* Python values ***********************************)
\* order: int | None
None == <<>>
Some(o) == <<o>>

NoExc == ""
ValueErrorDivisionByZero == "ValueError('Division by zero')"
ValueErrorZeroNotInvertible == "ValueError('Zero not invertible')"
ZeroDivisionError == "ZeroDivisionError"

Raise(e, where) == [exc |-> e, at |-> where, num |-> 0, den |-> 1]
Raised(v) == v.exc # NoExc

Abs(x) == IF x < 0 THEN -x ELSE x

RECURSIVE Gcd(_, _)
Gcd(a, b) == IF b = 0 THEN a ELSE Gcd(b, a % b)

\* fractions.Fraction(n, d): lowest terms, the sign carried by the numerator.
Fraction(n, d) ==
    IF d = 0 THEN Raise(ZeroDivisionError, "Fraction")
    ELSE LET g == Gcd(Abs(n), Abs(d))
             s == IF d < 0 THEN -1 ELSE 1
         IN [exc |-> NoExc, at |-> "", num |-> s * (n \div g), den |-> Abs(d) \div g]

\* An int result of a formula, before __call__ wraps it in Fraction(...).
IntVal(n) == [exc |-> NoExc, at |-> "", num |-> n, den |-> 1]

\* Fraction(x) for an int or Fraction x.
FractionOf(v) == IF Raised(v) THEN v ELSE Fraction(v.num, v.den)

\* A negation that leaves the sign alone.
FNeg_keeping_sign(x) == x

FNeg(x) == IF Raised(x) THEN x ELSE Fraction(-x.num, x.den)

FAdd(x, y) ==
    IF Raised(x) THEN x ELSE IF Raised(y) THEN y
    ELSE Fraction(x.num * y.den + y.num * x.den, x.den * y.den)

FMul(x, y) ==
    IF Raised(x) THEN x ELSE IF Raised(y) THEN y
    ELSE Fraction(x.num * y.num, x.den * y.den)

\* x / y; a zero y raises ZeroDivisionError in the method named by where.
FDiv(x, y, where) ==
    IF Raised(x) THEN x ELSE IF Raised(y) THEN y
    ELSE IF y.num = 0 THEN Raise(ZeroDivisionError, where)
    ELSE Fraction(x.num * y.den, x.den * y.num)

IsZero(v) == v.num = 0

\* a ** n for n >= 0
RECURSIVE Pow(_, _)
Pow(a, n) == IF n <= 0 THEN 1 ELSE a * Pow(a, n - 1)

(************************* coefficient formulas ****************************)
\* A caller-supplied formula with finite support: coefs[1] at index base,
\* coefs[2] at base + 1, ..., 0 elsewhere.  polynomial(coefs) has base 0,
\* monomial(degree, coef) is lambda n: coef*(n==degree).
Table(base, coefs) == [kind |-> "table", a |-> 0, b |-> 0, base |-> base, coefs |-> coefs]
\* geometric(a): lambda n: a**n
GeometricFormula(r) == [kind |-> "geometric", a |-> 0, b |-> 0, base |-> r, coefs |-> <<>>]
\* lambda n: 0
ZeroFormula == [kind |-> "zero", a |-> 0, b |-> 0, base |-> 0, coefs |-> <<>>]
\* lambda n: -self(n)
NegFormula(s) == [kind |-> "neg", a |-> s, b |-> 0, base |-> 0, coefs |-> <<>>]
\* lambda n: self(n) + other(n)
AddFormula(s, o) == [kind |-> "add", a |-> s, b |-> o, base |-> 0, coefs |-> <<>>]
\* lambda n: self.times_nth(other, n)
TimesFormula(s, o) == [kind |-> "times", a |-> s, b |-> o, base |-> 0, coefs |-> <<>>]
\* lambda n: 1*(n == -self.order)
ShiftFormula(s) == [kind |-> "shift", a |-> s, b |-> 0, base |-> 0, coefs |-> <<>>]
\* lambda n: self.inverse_nth(n)
InverseNthFormula(s) == [kind |-> "inverse_nth", a |-> s, b |-> 0, base |-> 0, coefs |-> <<>>]

TableAt(f, n) ==
    IF n >= f.base /\ n < f.base + Len(f.coefs) THEN f.coefs[n - f.base + 1] ELSE 0

\* What a method that builds a PowerSeries hands back: the heap with the new
\* objects, the index of the returned object, or the exception it raised.
Returned(h, ret) == [heap |-> h, ret |-> ret, exc |-> NoExc, at |-> ""]
Thrown(h, v) == [heap |-> h, ret |-> 0, exc |-> v.exc, at |-> v.at]

Ok(r) == r.exc = NoExc

\* An exception unwinds to the caller: the objects built so far are dropped.
Unwind(h, r) == IF Ok(r) THEN r ELSE [r EXCEPT !.heap = h]

RECURSIVE call(_, _, _), formula(_, _, _), times_nth(_, _, _, _),
          get_order_from(_, _, _), init(_, _, _), mul(_, _, _),
          invertible_factor(_, _), inverse_nth(_, _, _)

\* A __call__ without the `n < self.order` test.
call_unmasked(h, self, n) ==
    IF h[self].order = None THEN Fraction(0, 1)
    ELSE FractionOf(formula(h, h[self].formula, n))

\* PowerSeries.__call__
call(h, self, n) ==
    IF h[self].order = None THEN Fraction(0, 1)
    ELSE IF n < h[self].order[1] THEN Fraction(0, 1)
    ELSE FractionOf(formula(h, h[self].formula, n))

\* self.formula(n): the body of the lambda the object was built from.
formula(h, f, n) ==
    CASE f.kind = "table" -> IntVal(TableAt(f, n))
      [] f.kind = "geometric" -> IntVal(Pow(f.base, n))
      [] f.kind = "zero" -> IntVal(0)
      [] f.kind = "neg" -> FNeg(call(h, f.a, n))
      [] f.kind = "add" -> FAdd(call(h, f.a, n), call(h, f.b, n))
      [] f.kind = "times" -> times_nth(h, f.a, f.b, n)
      [] f.kind = "shift" -> IntVal(IF n = -h[f.a].order[1] THEN 1 ELSE 0)
      [] f.kind = "inverse_nth" -> inverse_nth(h, f.a, n)

\* terms[i], for a list comprehension kept as the set of its <<i, term>> pairs
TermAt(terms, i) == (CHOOSE p \in terms : p[1] = i)[2]

RECURSIVE sum(_, _, _, _)
\* sum(terms) over the indices i .. hi - 1, acc being the sum so far; a term
\* that raised ended the comprehension, so the first one is what propagates.
sum(terms, i, hi, acc) ==
    IF i >= hi THEN acc
    ELSE IF Raised(TermAt(terms, i)) THEN TermAt(terms, i)
    ELSE sum(terms, i + 1, hi, FAdd(acc, TermAt(terms, i)))

\* [self(i) * other(n-i) for i in range(self.order, - other.order + n + 1)]
times_terms(h, self, other, n) ==
    { <<i, FMul(call(h, self, i), call(h, other, n - i))>> :
        i \in h[self].order[1] .. (-h[other].order[1] + n) }

\* PowerSeries.times_nth
times_nth(h, self, other, n) ==
    IF h[self].order = None \/ h[other].order = None THEN Fraction(0, 1)
    ELSE sum(times_terms(h, self, other, n), h[self].order[1],
             -h[other].order[1] + n + 1, IntVal(0))

\* One sample of get_order's loop: v is self(i).
Sample(h, self, i, v, rest) ==
    IF Raised(v) THEN Thrown(h, v)
    ELSE IF ~IsZero(v) THEN Returned([h EXCEPT ![self].order = Some(i)], self)
    ELSE rest

\* PowerSeries.get_order, from sample i on: the loop over range(11)
get_order_from(h, self, i) ==
    IF i >= K THEN Returned([h EXCEPT ![self].order = None], self)
    ELSE Sample(h, self, i, call(h, self, i), get_order_from(h, self, i + 1))

\* PowerSeries.get_order
get_order(h, self) == get_order_from(h, self, 0)

\* `not self.order or self.order >= 0`
SamplesOrder(order) ==
    IF order = None THEN TRUE ELSE IF order[1] = 0 THEN TRUE ELSE order[1] >= 0

\* The object __init__ starts from: formula, the order given, length 5.
Fresh(h, coefficient_formula, order) ==
    Append(h, [formula |-> coefficient_formula, order |-> order, length |-> DefaultLength])

\* An __init__ that keeps the order it is given and never samples.
init_trusting(h, coefficient_formula, order) ==
    Returned(Fresh(h, coefficient_formula, order), Len(h) + 1)

\* PowerSeries.__init__: an exception in get_order leaves no object behind.
init(h, coefficient_formula, order) ==
    IF SamplesOrder(order)
    THEN Unwind(h, get_order(Fresh(h, coefficient_formula, order), Len(h) + 1))
    ELSE Returned(Fresh(h, coefficient_formula, order), Len(h) + 1)

\* PowerSeries.__mul__
mul(h, self, other) ==
    IF h[self].order = None \/ h[other].order = None
    THEN init(h, ZeroFormula, None)
    ELSE init(h, TimesFormula(self, other), Some(h[self].order[1] + h[other].order[1]))

\* self * m, for a second operand m that was just built
TimesBuilt(self, m) == IF Ok(m) THEN mul(m.heap, self, m.ret) ELSE m

\* PowerSeries(lambda n: 1*(n == -self.order), -self.order)
shift(h, self) == init(h, ShiftFormula(self), Some(-h[self].order[1]))

\* PowerSeries.invertible_factor
invertible_factor(h, self) ==
    IF h[self].order = None
    THEN Thrown(h, Raise(ValueErrorZeroNotInvertible, "invertible_factor"))
    ELSE Unwind(h, TimesBuilt(self, shift(h, self)))

\* [self.inverse_nth(i)*inv_factor(n-i) for i in range(n)], where known[i+1]
\* is the value self.inverse_nth(i) returns
inverse_terms(inv_factor, known, n) ==
    { <<i, FMul(known[i + 1], call(inv_factor.heap, inv_factor.ret, n - i))>> :
        i \in 0 .. (n - 1) }

\* An inverse_nth whose else branch returns sum(terms) / inv_factor(0).
inverse_step_unsigned(inv_factor, known, n) ==
    IF n = 0
    THEN FDiv(IntVal(1), call(inv_factor.heap, inv_factor.ret, 0), "inverse_nth")
    ELSE FDiv(sum(inverse_terms(inv_factor, known, n), 0, n, IntVal(0)),
              call(inv_factor.heap, inv_factor.ret, 0), "inverse_nth")

\* The value inverse_nth(n) returns, given the values of inverse_nth(0 .. n-1)
inverse_step(inv_factor, known, n) ==
    IF n = 0
    THEN FDiv(IntVal(1), call(inv_factor.heap, inv_factor.ret, 0), "inverse_nth")
    ELSE FDiv(FNeg(sum(inverse_terms(inv_factor, known, n), 0, n, IntVal(0))),
              call(inv_factor.heap, inv_factor.ret, 0), "inverse_nth")

RECURSIVE inverse_values(_, _, _)
\* <<inverse_nth(0), ..., inverse_nth(n)>>.  The recursive calls of inverse_nth
\* depend on self alone (every call rebuilds the same inv_factor), so each
\* value is computed once from the ones before it.
inverse_values(inv_factor, known, n) ==
    IF Len(known) > n THEN known
    ELSE inverse_values(inv_factor,
                        Append(known, inverse_step(inv_factor, known, Len(known))), n)

\* inverse_nth once inv_factor is built
InverseNthOf(inv_factor, n) ==
    IF ~Ok(inv_factor) THEN Raise(inv_factor.exc, inv_factor.at)
    ELSE IF n < 0 THEN inverse_step(inv_factor, <<>>, n)
    ELSE inverse_values(inv_factor, <<>>, n)[n + 1]

\* PowerSeries.inverse_nth
inverse_nth(h, self, n) ==
    IF h[self].order = None THEN Raise(ValueErrorDivisionByZero, "inverse_nth")
    ELSE InverseNthOf(invertible_factor(h, self), n)

\* PowerSeries.__neg__
neg(h, self) == init(h, NegFormula(self), h[self].order)

Min(a, b) == IF a <= b THEN a ELSE b

\* sum_order of __add__
sum_order(h, self, other) ==
    IF h[self].order = None THEN h[other].order
    ELSE IF h[other].order = None THEN h[self].order
    ELSE Some(Min(h[self].order[1], h[other].order[1]))

\* An __add__ whose result keeps sum_order without sampling.
add_trusting(h, self, other) ==
    Returned(Fresh(h, AddFormula(self, other), sum_order(h, self, other)), Len(h) + 1)

\* PowerSeries.__add__
add(h, self, other) == init(h, AddFormula(self, other), sum_order(h, self, other))

\* self + m, for a second operand m that was just built
PlusBuilt(self, m) == IF Ok(m) THEN add(m.heap, self, m.ret) ELSE m

\* PowerSeries.__sub__: self + (-other)
sub(h, self, other) == Unwind(h, PlusBuilt(self, neg(h, other)))

\* r * PowerSeries(lambda n: 1*(n == -self.order), -self.order), r just built
TimesShift(self, r) == IF Ok(r) THEN TimesBuilt(r.ret, shift(r.heap, self)) ELSE r

\* An inverse without the `self.order == None` test.
inverse_unguarded(h, self) ==
    Unwind(h, TimesShift(self, init(h, InverseNthFormula(self), Some(0))))

\* PowerSeries.inverse
inverse(h, self) ==
    IF h[self].order = None
    THEN Thrown(h, Raise(ValueErrorDivisionByZero, "inverse"))
    ELSE Unwind(h, TimesShift(self, init(h, InverseNthFormula(self), Some(0))))

\* PowerSeries.__truediv__: self * other.inverse()
truediv(h, self, other) == Unwind(h, TimesBuilt(self, inverse(h, other)))

(***************************** display **************************************)
\* str(Fraction): "n" when the denominator is 1, else "n/d"
FractionStr(v) ==
    IF v.den = 1 THEN ToString(v.num) ELSE ToString(v.num) \o "/" \o ToString(v.den)

\* PowerSeries.term
term(h, self, n) ==
    IF n = 0 THEN FractionStr(call(h, self, n))
    ELSE IF n = 1 THEN "(" \o FractionStr(call(h, self, n)) \o ")z"
    ELSE "(" \o FractionStr(call(h, self, n)) \o ")z^" \o ToString(n)

RECURSIVE Join(_)
\* ' + '.join(terms)
Join(terms) ==
    IF Len(terms) = 0 THEN ""
    ELSE IF Len(terms) = 1 THEN terms[1]
    ELSE terms[1] \o " + " \o Join(Tail(terms))

RECURSIVE terms_from(_, _, _, _, _)
\* [self.term(i + self.order) for i in range(i, length) (if self(i + self.order) != 0)]
terms_from(h, self, length, show_zeros, i) ==
    IF i >= length THEN <<>>
    ELSE IF show_zeros \/ ~IsZero(call(h, self, i + h[self].order[1]))
         THEN <<term(h, self, i + h[self].order[1])>> \o terms_from(h, self, length, show_zeros, i + 1)
         ELSE terms_from(h, self, length, show_zeros, i + 1)

\* PowerSeries.first_terms
first_terms(h, self, length, show_zeros) ==
    IF h[self].order = None THEN "0"
    ELSE LET terms == terms_from(h, self, length, show_zeros, 0)
         IN IF Len(terms) = 0 THEN "0" ELSE Join(terms)

\* PowerSeries.__str__
str(h, self) == first_terms(h, self, h[self].length, FALSE)

\* A set_length that writes self.order as well.
set_length_and_order(h, self, n) == [h EXCEPT ![self].length = n, ![self].order = Some(n)]

\* PowerSeries.set_length
set_length(h, self, n) == [h EXCEPT ![self].length = n]

(************************* basic_series factories **************************)
\* basic_series.zero
zero(h) == init(h, ZeroFormula, None)

\* basic_series.one
one(h) == init(h, Table(0, <<1>>), Some(0))

\* basic_series.monomial
monomial(h, degree, coef) ==
    IF coef = 0 THEN zero(h) ELSE init(h, Table(degree, <<coef>>), Some(degree))

\* basic_series.geometric
geometric(h, r) ==
    IF r = 0 THEN one(h) ELSE init(h, GeometricFormula(r), Some(0))

\* basic_series.polynomial
polynomial(h, coefs) ==
    IF Len(coefs) = 0 THEN zero(h) ELSE init(h, Table(0, coefs), Some(0))

(***************************** the machine *********************************)
\* heap: every PowerSeries object alive, the ones closures refer to included.
\* held: the objects the client has a reference to (the ones returned to it).
\* result: the outcome of the client's last call.

NoValue == IntVal(0)

Outcome(op, self, other, r) ==
    [op |-> op, self |-> self, other |-> other, n |-> 0, hint |-> None, ret |-> r.ret,
     val |-> NoValue, text |-> "", exc |-> r.exc, at |-> r.at]

\* A call that builds a series: on success the new objects join the heap and
\* the client holds the returned one; on an exception the heap is as it was.
Build(op, self, other, r) ==
    /\ heap' = r.heap
    /\ held' = IF r.exc = NoExc THEN held \cup {r.ret} ELSE held
    /\ result' = Outcome(op, self, other, r)

\* The client has room for one more series.
Room(cap) == Cardinality(held) < cap

Init ==
    /\ heap = <<>>
    /\ held = {}
    /\ result = Outcome("start", 0, 0, Returned(<<>>, 0))

\* PowerSeries(formula)
Construct(formulas, cap) ==
    /\ Room(cap)
    /\ \E f \in formulas : Build("PowerSeries", 0, 0, init(heap, f, Some(0)))

\* PowerSeries(formula, order)
ConstructWithOrder(formulas, orders, cap) ==
    /\ Room(cap)
    /\ \E f \in formulas, o \in orders :
         /\ heap' = init(heap, f, o).heap
         /\ held' = held \cup {init(heap, f, o).ret}
         /\ result' = [Outcome("PowerSeries(order)", 0, 0, init(heap, f, o)) EXCEPT !.hint = o]

Monomial(degrees, coefs, cap) ==
    /\ Room(cap)
    /\ \E d \in degrees, c \in coefs : Build("monomial", 0, 0, monomial(heap, d, c))

Geometric(ratios, cap) ==
    /\ Room(cap)
    /\ \E r \in ratios : Build("geometric", 0, 0, geometric(heap, r))

Polynomial(lists, cap) ==
    /\ Room(cap)
    /\ \E cs \in lists : Build("polynomial", 0, 0, polynomial(heap, cs))

\* -series
Negate(cap) ==
    /\ Room(cap)
    /\ \E s \in held : Build("neg", s, 0, neg(heap, s))

\* series + other
Add(cap) ==
    /\ Room(cap)
    /\ \E s \in held, o \in held : Build("add", s, o, add(heap, s, o))

\* series - other
Subtract(cap) ==
    /\ Room(cap)
    /\ \E s \in held, o \in held : Build("sub", s, o, sub(heap, s, o))

\* series * other
Multiply(operands, cap) ==
    /\ Room(cap)
    /\ \E s \in operands, o \in operands : Build("mul", s, o, mul(heap, s, o))

\* series.invertible_factor()
InvertibleFactor(cap) ==
    /\ Room(cap)
    /\ \E s \in held : Build("invertible_factor", s, 0, invertible_factor(heap, s))

\* series.inverse(); a call on a series of order None returns nothing, so it
\* needs no room
Inverse(operands, cap) ==
    \E s \in operands :
        /\ Room(cap) \/ heap[s].order = None
        /\ Build("inverse", s, 0, inverse(heap, s))

\* series / other
Divide(operands, cap) ==
    \E s \in operands, o \in operands :
        /\ Room(cap) \/ heap[o].order = None
        /\ Build("truediv", s, o, truediv(heap, s, o))

\* series(n), for a series among subjects
Coefficient(subjects, indices) ==
    \E s \in subjects, n \in indices :
        /\ result' = [Outcome("call", s, 0, Returned(heap, 0)) EXCEPT
                        !.n = n, !.val = call(heap, s, n)]
        /\ UNCHANGED <<heap, held>>

\* series.first_terms(length, show_zeros)
FirstTerms(subjects, lengths, flags) ==
    \E s \in subjects, length \in lengths, show_zeros \in flags :
        /\ result' = [Outcome(IF show_zeros THEN "first_terms(show_zeros)" ELSE "first_terms",
                              s, 0, Returned(heap, 0)) EXCEPT
                        !.n = length, !.text = first_terms(heap, s, length, show_zeros)]
        /\ UNCHANGED <<heap, held>>

\* str(series)
Str(subjects) ==
    \E s \in subjects :
        /\ result' = [Outcome("str", s, 0, Returned(heap, 0)) EXCEPT !.text = str(heap, s)]
        /\ UNCHANGED <<heap, held>>

\* series.set_length(n)
SetLength(subjects, lengths) ==
    \E s \in subjects, n \in lengths :
        /\ heap' = set_length(heap, s, n)
        /\ result' = [Outcome("set_length", s, 0, Returned(heap, 0)) EXCEPT !.n = n]
        /\ UNCHANGED held

(******************** the whole interface, small inputs ********************)
\* 1 + z
Formulas == { Table(0, <<1, 1>>) }
Indices == { 1 }
Lengths == { 2 }
\* The client inspects the series its last call returned or, if that call
\* returned none, the series it was made on.
LastUsed == (IF result.ret # 0 THEN {result.ret} ELSE {result.self}) \cap held

RECURSIVE UsesInverse(_, _)
\* Whether the coefficients of series s are computed by an inversion.
UsesInverse(h, s) ==
    \/ h[s].formula.kind = "inverse_nth"
    \/ h[s].formula.a # 0 /\ UsesInverse(h, h[s].formula.a)
    \/ h[s].formula.b # 0 /\ UsesInverse(h, h[s].formula.b)

\* The client multiplies and divides series that no inversion has built: every
\* coefficient of a product with a quotient reruns the whole recurrence.
Plain == { s \in held : ~UsesInverse(heap, s) }

Next ==
    \/ Construct(Formulas, MaxHeld)
    \/ Negate(MaxHeld)
    \/ Add(MaxHeld)
    \/ Subtract(MaxHeld)
    \/ Multiply(Plain, MaxHeld)
    \/ Inverse(Plain, MaxHeld)
    \/ Divide(Plain, MaxHeld)
    \/ Coefficient(LastUsed, Indices)
    \/ FirstTerms(LastUsed, Lengths, BOOLEAN)
    \/ Str(LastUsed)
    \/ SetLength(LastUsed, Lengths)

Spec == Init /\ [][Next]_vars

(************************* the arithmetic machine **************************)
\* 1 + z, 2 + z, -1 + 2z
ArithFormulas == { Table(0, <<1, 1>>), Table(0, <<2, 1>>), Table(0, <<-1, 2>>) }
\* the series 1 with the order given as -2
ArithHinted == { Table(0, <<1>>) }
ArithHints == { Some(-2) }
ArithDegrees == { -11, -2, 3, 6 }
ArithCoefs == { 0, 1 }
ArithRatios == { 1 }

NextArith ==
    \/ Construct(ArithFormulas, MaxArithHeld)
    \/ ConstructWithOrder(ArithHinted, ArithHints, MaxArithHeld)
    \/ Monomial(ArithDegrees, ArithCoefs, MaxArithHeld)
    \/ Geometric(ArithRatios, MaxArithHeld)
    \/ Negate(MaxArithHeld)
    \/ Add(MaxArithHeld)
    \/ Subtract(MaxArithHeld)
    \/ Multiply(held, MaxArithHeld)
    \/ InvertibleFactor(MaxArithHeld)
    \/ Inverse(held, MaxArithHeld)
    \/ Divide(held, MaxArithHeld)

SpecArith == Init /\ [][NextArith]_vars

(************************** the additive machine ***************************)
\* 1 + z and -1 + 2z: the constant terms cancel in the sum
AddFormulas == { Table(0, <<1, 1>>), Table(0, <<-1, 2>>) }
AddDegrees == { -2, 3 }
AddCoefs == { 0, 1 }

\* the series 1 with the order given as -2
AddHinted == { Table(0, <<1>>) }
AddHints == { Some(-2) }

NextAdd ==
    \/ Construct(AddFormulas, MaxAddHeld)
    \/ ConstructWithOrder(AddHinted, AddHints, MaxAddHeld)
    \/ Monomial(AddDegrees, AddCoefs, MaxAddHeld)
    \/ Negate(MaxAddHeld)
    \/ Add(MaxAddHeld)
    \/ Subtract(MaxAddHeld)

SpecAdd == Init /\ [][NextAdd]_vars

(************************* the constructor machine *************************)
\* 1 + z, z^2 + z^3, 5z^4, z^10, z^11 + z^12, 0
CtorFormulas ==
    { Table(0, <<1, 1>>), Table(2, <<1, 1>>), Table(4, <<5>>), Table(10, <<1>>),
      Table(11, <<1, 1>>), Table(0, <<>>) }
CtorHints == { None, Some(0), Some(1), Some(3), Some(10), Some(11), Some(12), Some(-1) }
CtorLists == { <<>>, <<0, 0, 7>> }

NextCtor ==
    \/ Construct(CtorFormulas, MaxCtorHeld)
    \/ ConstructWithOrder(CtorFormulas, CtorHints, MaxCtorHeld)
    \/ Polynomial(CtorLists, MaxCtorHeld)

SpecCtor == Init /\ [][NextCtor]_vars

(***************************** the claims **********************************)
Cells == 1 .. Len(heap)
Probes == (0 - BelowZero) .. MaxIndex
Sampled == 0 .. (K - 1)
Zero == Fraction(0, 1)
NonZero(v) == v.exc = NoExc /\ v.num # 0
Least(S) == CHOOSE j \in S : \A k \in S : j <= k
\* None for an empty set of indices, else its least element
FirstOf(S) == IF S = {} THEN None ELSE Some(Least(S))

\* The last call was A * B for two series of integer order.
Multiplied ==
    /\ result.op = "mul"
    /\ heap[result.self].order # None
    /\ heap[result.other].order # None

\* C1: multiply(A, B) of two series whose orders are not NONE is a series
\* whose order is A.order + B.order, whatever the sum.
C1_ProductOrderIsSum ==
    Multiplied =>
        /\ result.exc = NoExc
        /\ heap[result.ret].order =
             Some(heap[result.self].order[1] + heap[result.other].order[1])

RECURSIVE Convolution(_, _, _, _)
\* The sum of A(j) * B(n - j) for j from i to n - B.order.
Convolution(a, b, n, i) ==
    IF i > n - heap[b].order[1] THEN Zero
    ELSE FAdd(FMul(call(heap, a, i), call(heap, b, n - i)), Convolution(a, b, n, i + 1))

\* C3: every coefficient of multiply(A, B) is the convolution sum of the
\* coefficients of A and B, and geometric(1) * geometric(1) has n + 1 at n >= 0.
C3_ProductIsConvolution ==
    Multiplied =>
        /\ result.exc = NoExc
        /\ \A n \in Probes :
             call(heap, result.ret, n) =
               Convolution(result.self, result.other, n, heap[result.self].order[1])
        /\ (/\ heap[result.self].formula = GeometricFormula(1)
            /\ heap[result.other].formula = GeometricFormula(1))
           => \A n \in 0 .. MaxIndex : call(heap, result.ret, n) = IntVal(n + 1)

\* C9: invertible_factor(A) of a series whose order is not NONE is a series of
\* order 0 whose coefficient at 0 is nonzero and is A's coefficient at A.order,
\* so inverting A never divides by a zero c0.
C9_InvertibleFactorIsUnit ==
    /\ (result.op = "invertible_factor" /\ heap[result.self].order # None) =>
          /\ result.exc = NoExc
          /\ heap[result.ret].order = Some(0)
          /\ NonZero(call(heap, result.ret, 0))
          /\ call(heap, result.ret, 0) = call(heap, result.self, heap[result.self].order[1])
    /\ (result.op = "inverse" /\ heap[result.self].order # None) =>
          result.exc # ZeroDivisionError

\* C10: every series alive has order NONE, a negative order, or an order in
\* 0..10; an order in 0..10 is the index of a nonzero coefficient; every
\* coefficient below the order is 0, and all of them when the order is NONE.
C10_OrderInvariant ==
    \A s \in Cells :
        /\ \/ heap[s].order = None
           \/ heap[s].order[1] < 0
           \/ heap[s].order[1] \in Sampled
        /\ (heap[s].order # None /\ heap[s].order[1] \in Sampled) =>
              NonZero(call(heap, s, heap[s].order[1]))
        /\ heap[s].order # None =>
              \A n \in (heap[s].order[1] - BelowZero) .. (heap[s].order[1] - 1) :
                  call(heap, s, n) = Zero
        /\ heap[s].order = None => \A n \in Probes : call(heap, s, n) = Zero

\* An inversion has built a product of positive order from a series of negative order.
C10_Witness ==
    \E s \in Cells, t \in Cells :
        /\ heap[s].formula.kind = "times"
        /\ heap[s].order # None /\ heap[s].order[1] > 0
        /\ heap[t].order # None /\ heap[t].order[1] < 0
        /\ result.op = "inverse"

\* Series q is what a.inverse() returned.
IsInverseOf(q, a) ==
    /\ heap[q].formula.kind = "times"
    /\ heap[heap[q].formula.a].formula = InverseNthFormula(a)
    /\ heap[heap[q].formula.b].formula = ShiftFormula(a)

\* Series m is a * a.inverse() for a series a of order 0.
IsRoundTrip(m) ==
    /\ heap[m].formula.kind = "times"
    /\ IsInverseOf(heap[m].formula.b, heap[m].formula.a)
    /\ heap[heap[m].formula.a].order = Some(0)
    /\ NonZero(call(heap, heap[m].formula.a, 0))

\* C4: for a series A of order 0 with nonzero constant term, the coefficient of
\* multiply(A, inverse(A)) is 1 at 0 and 0 at every other tested index.
C4_InverseRoundTrip ==
    \A m \in Cells :
        IsRoundTrip(m) =>
            \A n \in (0 - BelowZero) .. MaxTested :
                call(heap, m, n) = IntVal(IF n = 0 THEN 1 ELSE 0)

\* 2 + z has been multiplied by its inverse.
C4_Witness ==
    \E m \in Cells :
        /\ IsRoundTrip(m)
        /\ heap[heap[m].formula.a].formula = Table(0, <<2, 1>>)
        /\ result.ret = m

\* C6: inverse(A), and divide(B, A), for a series A of order NONE raise the
\* division-by-zero error in inverse itself, before anything is built: no
\* series is returned and the heap is as it was.
C6_DivisionByZeroRaisedAtOnce ==
    [][ \A s \in Cells :
          (/\ \/ result'.op = "inverse" /\ result'.self = s
              \/ result'.op = "truediv" /\ result'.other = s
           /\ heap[s].order = None)
          => /\ result'.exc = ValueErrorDivisionByZero
             /\ result'.at = "inverse"
             /\ result'.ret = 0
             /\ heap' = heap
             /\ held' = held ]_vars

\* A series has been divided by another series, one of order NONE.
C6_Witness ==
    /\ result.op = "truediv"
    /\ result.self # result.other
    /\ heap[result.other].order = None
    /\ heap[result.self].order # None
    /\ result.exc = ValueErrorDivisionByZero

\* min(A.order, B.order), NONE counting as absent.
MinOrder(a, b) ==
    IF heap[a].order = None THEN heap[b].order
    ELSE IF heap[b].order = None THEN heap[a].order
    ELSE IF heap[a].order[1] <= heap[b].order[1] THEN heap[a].order ELSE heap[b].order

\* C5 as stated: add(A, B) has order min(A.order, B.order), the other operand's
\* order when one order is NONE, NONE when both are; the order is not
\* re-verified against the coefficients of the sum.
C5_SumOrderIsMin ==
    result.op = "add" =>
        /\ result.exc = NoExc
        /\ heap[result.ret].order = MinOrder(result.self, result.other)

\* The indices lo .. 10 where A(j) + B(j) is not 0.
SumNonzeroFrom(a, b, lo) ==
    { j \in lo .. (K - 1) : NonZero(FAdd(call(heap, a, j), call(heap, b, j))) }

\* C5, amended: a negative or NONE minimum is the order of add(A, B); a minimum
\* m >= 0 is re-verified, the order being the first index in m..10 where the
\* sum's coefficient is not 0, and NONE when there is none.
C5_SumOrderSampledFromMin ==
    result.op = "add" =>
        /\ result.exc = NoExc
        /\ heap[result.ret].order =
             IF MinOrder(result.self, result.other) = None THEN None
             ELSE IF MinOrder(result.self, result.other)[1] < 0
                  THEN MinOrder(result.self, result.other)
             ELSE FirstOf(SumNonzeroFrom(result.self, result.other,
                                         MinOrder(result.self, result.other)[1]))

\* Two series of order 0 have been added and the sum has a later order.
C5_Witness ==
    /\ result.op = "add"
    /\ result.self # result.other
    /\ heap[result.self].order = Some(0)
    /\ heap[result.other].order = Some(0)
    /\ heap[result.ret].order # None
    /\ heap[result.ret].order[1] > 0

\* C8: negate(A) has the order of A, and every coefficient of
\* add(A, negate(A)) is 0, whatever the order of A.
C8_NegateCancels ==
    \A s \in Cells :
        /\ heap[s].formula.kind = "neg" => heap[s].order = heap[heap[s].formula.a].order
        /\ (/\ heap[s].formula.kind = "add"
            /\ heap[heap[s].formula.b].formula = NegFormula(heap[s].formula.a))
           => \A n \in Probes : call(heap, s, n) = Zero

\* A series of negative order has been added to its negation.
C8_Witness ==
    /\ result.op = "add"
    /\ result.exc = NoExc
    /\ heap[result.other].formula = NegFormula(result.self)
    /\ heap[result.self].order # None
    /\ heap[result.self].order[1] < 0
    /\ NonZero(call(heap, result.self, heap[result.self].order[1]))

\* The last call was PowerSeries(f) or PowerSeries(f, h) with h >= 0.
SampledConstruction ==
    \/ result.op = "PowerSeries"
    \/ result.op = "PowerSeries(order)" /\ result.hint # None /\ result.hint[1] >= 0

\* The hint of the last construction: 0 when absent.
GivenHint == IF result.op = "PowerSeries" THEN Some(0) ELSE result.hint

\* The indices lo .. 10 where the formula f is not 0.
NonzeroFrom(f, lo) == { j \in lo .. (K - 1) : TableAt(f, j) # 0 }

\* C2 as stated: with an absent, zero or positive hint the order is the first
\* index k in 0..10 where the formula is not 0, NONE when there is none,
\* whatever the hint.
C2_OrderIsFirstNonzero ==
    SampledConstruction =>
        /\ result.exc = NoExc
        /\ heap[result.ret].order = FirstOf(NonzeroFrom(heap[result.ret].formula, 0))

\* C2, amended: with an absent, zero or positive hint h (absent counting as 0)
\* the order is the first index in h..10 where the formula is not 0, NONE when
\* there is none; with the hint None the order is NONE.
C2_OrderIsFirstNonzeroFromHint ==
    /\ SampledConstruction =>
          /\ result.exc = NoExc
          /\ heap[result.ret].order =
               FirstOf(NonzeroFrom(heap[result.ret].formula, GivenHint[1]))
    /\ (result.op = "PowerSeries(order)" /\ result.hint = None) =>
          /\ result.exc = NoExc
          /\ heap[result.ret].order = None

\* A series has been built with a hint above its first nonzero index, and
\* has a nonzero coefficient at or above the hint.
C2_Witness ==
    /\ result.op = "PowerSeries(order)"
    /\ result.hint # None
    /\ NonzeroFrom(heap[result.ret].formula, 0) # {}
    /\ Least(NonzeroFrom(heap[result.ret].formula, 0)) < result.hint[1]
    /\ heap[result.ret].order = result.hint

Queries == { "call", "first_terms", "first_terms(show_zeros)", "str" }
Builders == { "PowerSeries", "neg", "add", "sub", "mul", "inverse", "truediv" }

\* C7: no call changes the formula or the order of a series that exists, and
\* only set_length, on that series, changes a display length; a query changes
\* no series at all, and a call that builds returns a series that did not exist.
C7_OnlySetLengthChangesASeries ==
    [][ /\ Len(heap') >= Len(heap)
        /\ \A s \in Cells :
              /\ heap'[s].formula = heap[s].formula
              /\ heap'[s].order = heap[s].order
              /\ heap'[s].length # heap[s].length =>
                    result'.op = "set_length" /\ result'.self = s
        /\ result'.op = "set_length" => Len(heap') = Len(heap)
        /\ result'.op \in Queries => heap' = heap
        /\ (result'.op \in Builders /\ result'.exc = NoExc) => result'.ret > Len(heap)
      ]_vars

\* A series whose display length was set has been an operand since, and the
\* result has been rendered.
C7_Witness ==
    /\ result.op = "str"
    /\ heap[result.self].formula.a # 0
    /\ heap[heap[result.self].formula.a].length # DefaultLength
    /\ heap[result.self].length = DefaultLength

====
